---------------------------- MODULE Spec2Model ----------------------------
(***************************************************************************)
(* STRETCHER: multitrack tempo-synchronised looper.  Model of the audio    *)
(* engine: AudioTrack (buffer, stretch ratio, position, loop region),      *)
(* MainComponent (master tempo, transport, mixing callback, metronome).    *)
(*                                                                         *)
(* Numbers.  The code computes in double.  Tempi and stretch ratios are    *)
(* modelled as exact rationals <<n, d>> (d > 0, lowest terms).  Times are  *)
(* integers counted in ticks, TicksPerFrame ticks to one sample frame, so  *)
(* that a time can fall between two frames; (int)(t * sampleRate) is       *)
(* t \div TicksPerFrame.  Every clip has the device's sample rate.         *)
(***************************************************************************)
EXTENDS Integers, Sequences, FiniteSets, TLC

\* ------------------------------------------------------------------ bounds
NumTracks == 2
FramesPerSec == 4
TicksPerFrame == 2
BlockSize == 2
MaxBudget == 4
MaxPlayPosition == 12

Tracks == 1..NumTracks
TicksPerSec == FramesPerSec * TicksPerFrame

\* --------------------------------------------------------------- rationals
RECURSIVE GCD(_, _)
GCD(a, b) == IF b = 0 THEN a ELSE GCD(b, a % b)

Abs(n) == IF n < 0 THEN -n ELSE n

\* n/d in lowest terms with a positive denominator (d # 0)
Rat(n, d) ==
  LET g == GCD(Abs(n), Abs(d))
      s == IF d < 0 THEN -1 ELSE 1
  IN  <<(s * n) \div g, (s * d) \div g>>

RInt(n) == <<n, 1>>
RMul(x, y) == Rat(x[1] * y[1], x[2] * y[2])
RDiv(x, y) == Rat(x[1] * y[2], x[2] * y[1])
RAdd(x, y) == Rat(x[1] * y[2] + y[1] * x[2], x[2] * y[2])
RSub(x, y) == Rat(x[1] * y[2] - y[1] * x[2], x[2] * y[2])
RLt(x, y) == x[1] * y[2] < y[1] * x[2]
RLe(x, y) == x[1] * y[2] <= y[1] * x[2]
RAbs(x) == <<Abs(x[1]), x[2]>>

\* juce::jlimit(lower, upper, value)
jlimit(lo, hi, v) == IF RLt(v, lo) THEN lo ELSE IF RLt(hi, v) THEN hi ELSE v

MinRatio == Rat(1, 4)
MaxRatio == RInt(4)
RatioEpsilon == Rat(1, 1000)
DirectThreshold == Rat(1, 50)
MinBPM == RInt(60)
MaxBPM == RInt(200)
DefaultBPM == RInt(120)


\* ------------------------------------------------------------------- clips
(* A decoded file: frames sample frames on chans channels, every sample   *)
(* equal to amp.  onsets, beat and lag stand for what the signal analysis  *)
(* finds in the content: the number of onset peaks, the most frequent      *)
(* inter-onset interval and the beat interval of the best autocorrelation  *)
(* lag, both in milliseconds (0: none).                                    *)
Clip(f, c, a, o, b, l) ==
  [frames |-> f, chans |-> c, amp |-> a, onsets |-> o, beat |-> b, lag |-> l]

NoAudio == Clip(0, 0, 0, 0, 0, 0)
ClipA == Clip(FramesPerSec, 1, 1, 4, 600, 600)
ClipB == Clip(FramesPerSec, 2, 2, 5, 750, 750)
ClipShort == Clip(3, 1, 3, 0, 0, 0)
ClipTiny == Clip(1, 1, 1, 0, 0, 0)
ClipEmpty == Clip(0, 2, 0, 0, 0, 0)
\* a second long clip with too few onset peaks and a clear autocorrelation lag
ClipLag == Clip(FramesPerSec, 1, 1, 2, 0, 750)
\* createReaderFor returned no reader: the file cannot be decoded
NoReader == Clip(-1, 0, 0, 0, 0, 0)

TempoFiles == {ClipA, ClipB, ClipEmpty, NoReader}

\* ----------------------------------------------------------- BPM estimator
RECURSIVE OctaveUp(_)
OctaveUp(bpm) ==
  IF RLt(bpm, RInt(70)) /\ RLt(RInt(0), bpm) THEN OctaveUp(RMul(bpm, RInt(2)))
  ELSE bpm

RECURSIVE OctaveDown(_)
OctaveDown(bpm) ==
  IF RLt(RInt(180), bpm) THEN OctaveDown(RDiv(bpm, RInt(2))) ELSE bpm

OctaveCorrect(bpm) == OctaveDown(OctaveUp(bpm))

findBestBPMCandidate(buf) ==
  IF buf.onsets < 4 THEN DefaultBPM
  ELSE IF buf.beat = 0 THEN DefaultBPM
  ELSE OctaveCorrect(Rat(60000, buf.beat))

detectBPMFromOnsets(buf) ==
  IF buf.frames = 0 \/ buf.frames < FramesPerSec THEN DefaultBPM
  ELSE IF buf.onsets < 4 THEN DefaultBPM
  ELSE findBestBPMCandidate(buf)

detectBPMAutocorrelation(buf) ==
  IF buf.frames < FramesPerSec THEN DefaultBPM
  ELSE IF buf.lag = 0 THEN DefaultBPM
  ELSE OctaveCorrect(Rat(60000, buf.lag))

PatternBPM(buf, beats) == Rat(beats * 60 * FramesPerSec, buf.frames)
InBPMRange(bpm) == RLe(MinBPM, bpm) /\ RLe(bpm, MaxBPM)

detectBPMImproved(buf) ==
  IF buf.frames = 0 THEN DefaultBPM
  ELSE LET possible == SelectSeq(<<4, 8, 16, 32>>,
                                 LAMBDA b : InBPMRange(PatternBPM(buf, b)))
           preferred == SelectSeq(possible,
                                  LAMBDA b : /\ RLe(RInt(65), PatternBPM(buf, b))
                                             /\ RLe(PatternBPM(buf, b), RInt(150)))
       IN  IF possible = <<>> THEN DefaultBPM
           ELSE IF preferred # <<>> THEN PatternBPM(buf, Head(preferred))
           ELSE PatternBPM(buf, Head(possible))

\* the fallback chain of loadAudioFile
EstimateBPM(buf) ==
  LET b1 == detectBPMFromOnsets(buf)
      b2 == IF InBPMRange(b1) THEN b1 ELSE detectBPMAutocorrelation(buf)
      b3 == IF InBPMRange(b2) THEN b2 ELSE detectBPMImproved(buf)
  IN  IF InBPMRange(b3) THEN b3 ELSE DefaultBPM

\* -------------------------------------------------------------- AudioTrack
(* One AudioTrack object.  stDirty: the SoundTouch instance holds samples  *)
(* put since its last clear().  Times (currentPosition, loopStartTime,     *)
(* loopEndTime) are in ticks.                                              *)
NewAudioTrack ==
  [audioBuffer |-> NoAudio, currentPosition |-> 0, stretchRatio |-> RInt(1),
   detectedBPM |-> RInt(0), masterBPM |-> RInt(120), muted |-> FALSE,
   solo |-> FALSE, looping |-> TRUE, volume |-> 1,
   hasCustomLoopRegion |-> FALSE, loopStartTime |-> 0, loopEndTime |-> 0,
   stDirty |-> FALSE]

isLoaded(tr) == tr.audioBuffer.frames > 0

getDurationInSeconds(tr) ==
  IF tr.audioBuffer.frames > 0 THEN tr.audioBuffer.frames * TicksPerFrame ELSE 0

\* loadAudioFile that does not run the BPM detection
loadAudioFileUnanalysed(tr, file) ==
  IF file = NoReader THEN tr
  ELSE [tr EXCEPT !.audioBuffer = file,
                  !.currentPosition = 0,
                  !.stretchRatio = RInt(1),
                  !.hasCustomLoopRegion = FALSE,
                  !.loopStartTime = 0,
                  !.loopEndTime = 0,
                  !.stDirty = IF file.frames > 0 THEN FALSE ELSE tr.stDirty]

\* loadAudioFile that leaves the loop region of the clip it replaces
loadAudioFileKeepingRegion(tr, file) ==
  IF file = NoReader THEN tr
  ELSE [tr EXCEPT !.audioBuffer = file,
                  !.currentPosition = 0,
                  !.stretchRatio = RInt(1),
                  !.detectedBPM = EstimateBPM(file),
                  !.stDirty = IF file.frames > 0 THEN FALSE ELSE tr.stDirty]

loadAudioFile(tr, file) ==
  IF file = NoReader THEN tr
  ELSE [tr EXCEPT !.audioBuffer = file,
                  !.currentPosition = 0,
                  !.stretchRatio = RInt(1),
                  !.hasCustomLoopRegion = FALSE,
                  !.loopStartTime = 0,
                  !.loopEndTime = 0,
                  !.detectedBPM = EstimateBPM(file),
                  !.stDirty = IF file.frames > 0 THEN FALSE ELSE tr.stDirty]

\* setManualBPM without its range test
setManualBPMUnchecked(tr, bpm) == [tr EXCEPT !.detectedBPM = bpm]

setManualBPM(tr, bpm) ==
  IF InBPMRange(bpm) THEN [tr EXCEPT !.detectedBPM = bpm] ELSE tr

setStretchRatio(tr, ratio) ==
  LET newRatio == jlimit(MinRatio, MaxRatio, ratio)
  IN  IF RLt(RatioEpsilon, RAbs(RSub(newRatio, tr.stretchRatio)))
      THEN [tr EXCEPT !.stretchRatio = newRatio]
      ELSE tr

\* scaleStretchRatio without the jlimit
scaleStretchRatioUnclamped(tr, scaleFactor) ==
  LET newRatio == RMul(tr.stretchRatio, scaleFactor)
  IN  IF RLt(RatioEpsilon, RAbs(RSub(newRatio, tr.stretchRatio)))
      THEN [tr EXCEPT !.stretchRatio = newRatio]
      ELSE tr

scaleStretchRatio(tr, scaleFactor) ==
  LET newRatio == jlimit(MinRatio, MaxRatio, RMul(tr.stretchRatio, scaleFactor))
  IN  IF RLt(RatioEpsilon, RAbs(RSub(newRatio, tr.stretchRatio)))
      THEN [tr EXCEPT !.stretchRatio = newRatio]
      ELSE tr

autoSyncToMaster(tr) ==
  IF RLt(RInt(0), tr.detectedBPM) /\ RLt(RInt(0), tr.masterBPM)
  THEN setStretchRatio(tr, RDiv(tr.detectedBPM, tr.masterBPM))
  ELSE tr

setMasterBPM(tr, newMasterBPM) == [tr EXCEPT !.masterBPM = newMasterBPM]

setPosition(tr, positionInSeconds) ==
  IF tr.hasCustomLoopRegion /\ tr.loopEndTime > tr.loopStartTime
  THEN [tr EXCEPT !.currentPosition =
          IF positionInSeconds < tr.loopStartTime THEN tr.loopStartTime
          ELSE IF tr.loopEndTime < positionInSeconds THEN tr.loopEndTime
          ELSE positionInSeconds]
  ELSE [tr EXCEPT !.currentPosition =
          IF positionInSeconds < 0 THEN 0
          ELSE IF getDurationInSeconds(tr) < positionInSeconds
               THEN getDurationInSeconds(tr)
          ELSE positionInSeconds]

\* reset that goes to the start of the clip whatever the loop region
resetToClipStart(tr) == [tr EXCEPT !.currentPosition = 0, !.stDirty = FALSE]

reset(tr) ==
  [tr EXCEPT !.currentPosition =
               IF tr.hasCustomLoopRegion /\ tr.loopStartTime >= 0
               THEN tr.loopStartTime ELSE 0,
             !.stDirty = FALSE]

\* setLoopRegion without the test against the duration
setLoopRegionPastEnd(tr, startTime, endTime) ==
  IF startTime >= 0 /\ endTime > startTime
  THEN [tr EXCEPT !.loopStartTime = startTime,
                  !.loopEndTime = endTime,
                  !.hasCustomLoopRegion = TRUE,
                  !.currentPosition =
                     IF tr.currentPosition < startTime \/ tr.currentPosition > endTime
                     THEN startTime ELSE tr.currentPosition]
  ELSE tr

setLoopRegion(tr, startTime, endTime) ==
  IF startTime >= 0 /\ endTime > startTime /\ endTime <= getDurationInSeconds(tr)
  THEN [tr EXCEPT !.loopStartTime = startTime,
                  !.loopEndTime = endTime,
                  !.hasCustomLoopRegion = TRUE,
                  !.currentPosition =
                     IF tr.currentPosition < startTime \/ tr.currentPosition > endTime
                     THEN startTime ELSE tr.currentPosition]
  ELSE tr

\* clearLoopRegion that tests the position against the end of the region it
\* removes
clearLoopRegionByRegionEnd(tr) ==
  [tr EXCEPT !.hasCustomLoopRegion = FALSE,
             !.loopStartTime = 0,
             !.loopEndTime = 0,
             !.currentPosition = IF tr.currentPosition > tr.loopEndTime THEN 0
                                 ELSE tr.currentPosition]

clearLoopRegion(tr) ==
  [tr EXCEPT !.hasCustomLoopRegion = FALSE,
             !.loopStartTime = 0,
             !.loopEndTime = 0,
             !.currentPosition =
                IF tr.currentPosition > getDurationInSeconds(tr) THEN 0
                ELSE tr.currentPosition]

\* ----------------------------------------------------------------- render
OutChannels == 2
Silence == [ch \in 1..OutChannels |-> [i \in 1..BlockSize |-> 0]]
Min(a, b) == IF a < b THEN a ELSE b

\* the loop bounds both playback paths start from, in ticks
LoopStart(tr) ==
  IF tr.hasCustomLoopRegion /\ tr.loopEndTime > tr.loopStartTime
  THEN tr.loopStartTime ELSE 0
LoopEnd(tr) ==
  IF tr.hasCustomLoopRegion /\ tr.loopEndTime > tr.loopStartTime
  THEN tr.loopEndTime ELSE getDurationInSeconds(tr)
LoopStartSample(tr) == LoopStart(tr) \div TicksPerFrame
\* loopEndSample taken from the clip's length whatever the region
LoopEndSampleOfClip(tr) == tr.audioBuffer.frames
LoopEndSample(tr) == Min(LoopEnd(tr) \div TicksPerFrame, tr.audioBuffer.frames)

(* The part both paths share: the track after the wrap at the start of    *)
(* the call, the first frame to read (currentSample) and whether the call  *)
(* goes on to read.  clearOnWrap: the stretched path clears SoundTouch     *)
(* when it wraps.                                                          *)
Locate(tr, clearOnWrap) ==
  LET loopStartSample == LoopStartSample(tr)
      loopEndSample == LoopEndSample(tr)
      loopLengthSamples == loopEndSample - loopStartSample
      currentSample == tr.currentPosition \div TicksPerFrame
  IN  IF loopLengthSamples <= 0
      THEN [tr |-> tr, currentSample |-> currentSample, go |-> FALSE]
      ELSE IF tr.looping /\ currentSample < loopStartSample
      THEN [tr |-> [tr EXCEPT !.currentPosition = LoopStart(tr),
                              !.stDirty = IF clearOnWrap THEN FALSE ELSE @],
            currentSample |-> loopStartSample, go |-> TRUE]
      ELSE IF tr.looping /\ currentSample >= loopEndSample
      THEN LET wrapped == loopStartSample
                          + ((currentSample - loopStartSample) % loopLengthSamples)
           IN  [tr |-> [tr EXCEPT !.currentPosition = wrapped * TicksPerFrame,
                                  !.stDirty = IF clearOnWrap THEN FALSE ELSE @],
                currentSample |-> wrapped, go |-> TRUE]
      ELSE IF ~tr.looping /\ currentSample >= loopEndSample
      THEN [tr |-> tr, currentSample |-> currentSample, go |-> FALSE]
      ELSE [tr |-> tr, currentSample |-> currentSample, go |-> TRUE]

\* copyFrom in place of addFrom: the frames replace what the buffer holds
AddFramesCopied(buffer, chs, count, value) ==
  [ch \in 1..OutChannels |->
     [i \in 1..BlockSize |->
        IF ch \in chs /\ i <= count THEN value
        ELSE buffer[ch][i]]]

\* buffer.addFrom / addSample of count frames of value, first count frames
AddFrames(buffer, chs, count, value) ==
  [ch \in 1..OutChannels |->
     [i \in 1..BlockSize |->
        IF ch \in chs /\ i <= count THEN buffer[ch][i] + value
        ELSE buffer[ch][i]]]

\* the output channels a track of inputChannels channels is mixed into
MixChannels(inputChannels) ==
  (1..Min(OutChannels, inputChannels))
    \cup (IF inputChannels = 1 /\ OutChannels >= 2 THEN {2} ELSE {})

\* the position after samplesToRead frames were consumed, never wrapped
AdvanceWithoutWrap(tr, samplesToRead, clearOnWrap) ==
  [tr EXCEPT !.currentPosition = tr.currentPosition + samplesToRead * TicksPerFrame]

\* the position after samplesToRead frames were consumed, with the final wrap
Advance(tr, samplesToRead, clearOnWrap) ==
  LET pos == tr.currentPosition + samplesToRead * TicksPerFrame
  IN  IF tr.looping /\ pos >= LoopEnd(tr)
      THEN [tr EXCEPT !.currentPosition = LoopStart(tr),
                      !.stDirty = IF clearOnWrap THEN FALSE ELSE @]
      ELSE [tr EXCEPT !.currentPosition = pos]

(* Both paths return the track, the buffer and the source frames read.    *)
processDirectPlayback(tr, buffer, numSamples) ==
  LET loc == Locate(tr, FALSE)
      samplesToRead == Min(numSamples, LoopEndSample(tr) - loc.currentSample)
  IN  IF ~loc.go \/ samplesToRead <= 0
      THEN [tr |-> loc.tr, buffer |-> buffer, read |-> {}]
      ELSE [tr |-> Advance(loc.tr, samplesToRead, FALSE),
            buffer |-> AddFrames(buffer, MixChannels(tr.audioBuffer.chans),
                                 samplesToRead, tr.audioBuffer.amp * tr.volume),
            read |-> loc.currentSample .. (loc.currentSample + samplesToRead - 1)]

(* received: the number of frames SoundTouch::receiveSamples returned, at *)
(* most numSamples; the stretcher's output for a constant clip is taken to *)
(* be that constant.                                                       *)
processWithSoundTouch(tr, buffer, numSamples, received) ==
  LET loc == Locate(tr, TRUE)
      samplesToRead == Min(numSamples * 2, LoopEndSample(tr) - loc.currentSample)
  IN  IF ~loc.go \/ samplesToRead <= 0
      THEN [tr |-> loc.tr, buffer |-> buffer, read |-> {}]
      ELSE [tr |-> Advance([loc.tr EXCEPT !.stDirty = TRUE], samplesToRead, TRUE),
            buffer |-> AddFrames(buffer,
                                 IF tr.audioBuffer.chans = 1
                                 THEN 1..Min(2, OutChannels)
                                 ELSE 1..Min(OutChannels, tr.audioBuffer.chans),
                                 Min(received, numSamples),
                                 tr.audioBuffer.amp * tr.volume),
            read |-> loc.currentSample .. (loc.currentSample + samplesToRead - 1)]

\* the mode test with the threshold itself taken for direct playback
IsDirectAtThreshold(tr) == RLe(RAbs(RSub(tr.stretchRatio, RInt(1))), DirectThreshold)

IsDirect(tr) == RLt(RAbs(RSub(tr.stretchRatio, RInt(1))), DirectThreshold)

processBlock(tr, buffer, numSamples, received) ==
  IF ~isLoaded(tr) \/ tr.muted \/ numSamples <= 0
  THEN [tr |-> tr, buffer |-> buffer, read |-> {}]
  ELSE IF tr.audioBuffer.chans <= 0
  THEN [tr |-> tr, buffer |-> buffer, read |-> {}]
  ELSE IF IsDirect(tr)
  THEN processDirectPlayback(tr, buffer, numSamples)
  ELSE processWithSoundTouch(tr, buffer, numSamples, received)

\* ----------------------------------------------------------- MainComponent
VARIABLES audioTracks, masterTempo, previousMasterTempo, currentPlayPosition,
          isPlaying, autoSyncEnabled, metronomeEnabled, metronomePhase,
          metronomeBeatInterval, lastBeatTime, out, readLog, hist, budget,
          audioLock, lock, messageThread, audioThread

tempoVars == <<masterTempo, previousMasterTempo, metronomeBeatInterval>>
transportVars == <<currentPlayPosition, isPlaying>>
metronomeVars == <<metronomeEnabled, metronomePhase, lastBeatTime>>
(* audioLock: the holder of MainComponent::audioLock; lock[t]: the holder   *)
(* of track t's AudioTrack::lock; messageThread, audioThread: where each    *)
(* thread stands inside the call it is running.                             *)
threadVars == <<audioLock, lock, messageThread, audioThread>>
vars == <<audioTracks, masterTempo, previousMasterTempo, currentPlayPosition,
          isPlaying, autoSyncEnabled, metronomeEnabled, metronomePhase,
          metronomeBeatInterval, lastBeatTime, out, readLog, hist, budget,
          audioLock, lock, messageThread, audioThread>>

NoHolder == "free"
AtRest == [at |-> "idle"]

NoRead == [t \in Tracks |-> {}]
\* hist: the last operation, with what it started from
NoHist == [op |-> "none"]

\* 60 / bpm seconds, in ticks
BeatInterval(bpm) == RDiv(RInt(60 * TicksPerSec), bpm)

\* the fields the tempo operations work on
TempoState == [tracks |-> audioTracks, masterTempo |-> masterTempo,
               previousMasterTempo |-> previousMasterTempo,
               metronomeBeatInterval |-> metronomeBeatInterval]

setTempo(S, bpm) ==
  LET scaleFactor == RDiv(bpm, S.previousMasterTempo)
      scaled == [t \in Tracks |->
                   IF isLoaded(S.tracks[t])
                   THEN scaleStretchRatio(S.tracks[t], scaleFactor)
                   ELSE S.tracks[t]]
  IN  [tracks |-> [t \in Tracks |-> setMasterBPM(scaled[t], bpm)],
       masterTempo |-> bpm,
       previousMasterTempo |-> S.masterTempo,
       metronomeBeatInterval |-> BeatInterval(bpm)]

\* setInitialMasterBPM that tells only the defining track the new master BPM
setInitialMasterBPMDefiningOnly(S, bpm, definingTrack) ==
  [tracks |-> [t \in Tracks |->
                 IF t = definingTrack
                 THEN setMasterBPM(setStretchRatio(S.tracks[t], RInt(1)), bpm)
                 ELSE S.tracks[t]],
   masterTempo |-> bpm,
   previousMasterTempo |-> S.masterTempo,
   metronomeBeatInterval |-> BeatInterval(bpm)]

setInitialMasterBPM(S, bpm, definingTrack) ==
  [tracks |-> [t \in Tracks |->
                 IF t = definingTrack
                 THEN setMasterBPM(setStretchRatio(S.tracks[t], RInt(1)), bpm)
                 ELSE setMasterBPM(S.tracks[t], bpm)],
   masterTempo |-> bpm,
   previousMasterTempo |-> S.masterTempo,
   metronomeBeatInterval |-> BeatInterval(bpm)]

\* onTrackLoaded that adopts the BPM however many tracks have audio
onTrackLoadedAnyCount(S, trackBPM) ==
  LET withAudio == {t \in Tracks : isLoaded(S.tracks[t])}
  IN  IF withAudio # {} /\ RLt(RInt(0), trackBPM)
      THEN setInitialMasterBPM(S, trackBPM, CHOOSE t \in withAudio : TRUE)
      ELSE S

onTrackLoaded(S, trackBPM) ==
  LET withAudio == {t \in Tracks : isLoaded(S.tracks[t])}
  IN  IF Cardinality(withAudio) = 1 /\ RLt(RInt(0), trackBPM)
      THEN setInitialMasterBPM(S, trackBPM, CHOOSE t \in withAudio : TRUE)
      ELSE S

RECURSIVE SumBPM(_, _)
SumBPM(trks, ts) ==
  IF ts = {} THEN RInt(0)
  ELSE LET t == CHOOSE x \in ts : TRUE
       IN  RAdd(trks[t].detectedBPM, SumBPM(trks, ts \ {t}))

\* findAverageBPM that takes the BPMs from 60 to 200, the ends included
findAverageBPMInclusive(trks) ==
  LET bpms == {t \in Tracks : /\ isLoaded(trks[t])
                              /\ RLe(MinBPM, trks[t].detectedBPM)
                              /\ RLe(trks[t].detectedBPM, MaxBPM)}
  IN  IF bpms = {} THEN RInt(0)
      ELSE RDiv(SumBPM(trks, bpms), RInt(Cardinality(bpms)))

findAverageBPM(trks) ==
  LET bpms == {t \in Tracks : /\ isLoaded(trks[t])
                              /\ RLt(MinBPM, trks[t].detectedBPM)
                              /\ RLt(trks[t].detectedBPM, MaxBPM)}
  IN  IF bpms = {} THEN RInt(0)
      ELSE RDiv(SumBPM(trks, bpms), RInt(Cardinality(bpms)))

Init ==
  /\ audioTracks = [t \in Tracks |-> NewAudioTrack]
  /\ masterTempo = RInt(120)
  /\ previousMasterTempo = RInt(120)
  /\ currentPlayPosition = 0
  /\ isPlaying = FALSE
  /\ autoSyncEnabled = TRUE
  /\ metronomeEnabled = FALSE
  /\ metronomePhase = 0
  /\ metronomeBeatInterval = BeatInterval(RInt(120))
  /\ lastBeatTime = 0
  /\ out = Silence
  /\ readLog = NoRead
  /\ hist = NoHist
  /\ budget = 0
  /\ audioLock = NoHolder
  /\ lock = [t \in Tracks |-> NoHolder]
  /\ messageThread = AtRest
  /\ audioThread = AtRest

\* no audio callback ran in this step: nothing rendered, nothing read
Idle == out' = Silence /\ readLog' = NoRead

\* install the result of a tempo operation
Install(S) ==
  /\ audioTracks' = S.tracks
  /\ masterTempo' = S.masterTempo
  /\ previousMasterTempo' = S.previousMasterTempo
  /\ metronomeBeatInterval' = S.metronomeBeatInterval

\* TrackComponent::loadButtonClicked, the file chooser's callback
LoadButtonClicked(t, file) ==
  LET tr == loadAudioFile(audioTracks[t], file)
      S1 == [TempoState EXCEPT !.tracks[t] = tr]
  IN  /\ Install(IF RLt(RInt(0), tr.detectedBPM)
                 THEN onTrackLoaded(S1, tr.detectedBPM)
                 ELSE S1)
      /\ hist' = [op |-> "load", track |-> t, decoded |-> file # NoReader]
      /\ UNCHANGED <<transportVars, metronomeVars, autoSyncEnabled>>
      /\ Idle

\* TrackComponent::stretchSliderChanged / the setStretchRatio command
StretchSliderChanged(t, ratio) ==
  /\ audioTracks' = [audioTracks EXCEPT ![t] = setStretchRatio(@, ratio)]
  /\ hist' = NoHist
  /\ UNCHANGED <<tempoVars, transportVars, metronomeVars, autoSyncEnabled>>
  /\ Idle

\* MainComponent::syncNewTrackToMaster
SyncNewTrackToMaster(t) ==
  /\ isLoaded(audioTracks[t])
  /\ audioTracks' = [audioTracks EXCEPT
                       ![t] = autoSyncToMaster(setMasterBPM(@, masterTempo))]
  /\ hist' = NoHist
  /\ UNCHANGED <<tempoVars, transportVars, metronomeVars, autoSyncEnabled>>
  /\ Idle

\* TransportComponent::tempoSliderChanged -> MainComponent::setTempo
TempoSliderChanged(bpm) ==
  /\ Install(setTempo(TempoState, bpm))
  /\ hist' = [op |-> "setTempo", bpm |-> bpm, master |-> masterTempo,
              previous |-> previousMasterTempo,
              ratio |-> [t \in Tracks |-> audioTracks[t].stretchRatio]]
  /\ UNCHANGED <<transportVars, metronomeVars, autoSyncEnabled>>
  /\ Idle

\* autoSyncAllTracks that calls setTempo whatever the average is
AutoSyncAllTracksAnyAverage ==
  LET avgBPM == findAverageBPM(audioTracks)
  IN  /\ autoSyncEnabled' = ~autoSyncEnabled
      /\ IF autoSyncEnabled'
         THEN Install(setTempo(TempoState, avgBPM))
         ELSE UNCHANGED <<audioTracks, tempoVars>>
      /\ hist' = [op |-> "autoSync"]
      /\ UNCHANGED <<transportVars, metronomeVars>>
      /\ Idle

\* MainComponent::autoSyncAllTracks
AutoSyncAllTracks ==
  LET avgBPM == findAverageBPM(audioTracks)
  IN  /\ autoSyncEnabled' = ~autoSyncEnabled
      /\ IF autoSyncEnabled' /\ RLt(RInt(0), avgBPM)
         THEN Install(setTempo(TempoState, avgBPM))
         ELSE UNCHANGED <<audioTracks, tempoVars>>
      /\ hist' = [op |-> "autoSync"]
      /\ UNCHANGED <<transportVars, metronomeVars>>
      /\ Idle

\* TrackComponent::onWaveformBPMChanged / the BPM editor's OK callback
ManualBPMChanged(t, bpm) ==
  /\ isLoaded(audioTracks[t])
  /\ Install(onTrackLoaded(
        [TempoState EXCEPT !.tracks[t] = setManualBPM(@, bpm)], bpm))
  /\ hist' = NoHist
  /\ UNCHANGED <<transportVars, metronomeVars, autoSyncEnabled>>
  /\ Idle

\* AudioTrack::setManualBPM called with any value for a track with audio,
\* the tracks whose BPM the track's component lets the user correct
SetManualBPMCall(t, bpm) ==
  /\ isLoaded(audioTracks[t])
  /\ audioTracks' = [audioTracks EXCEPT ![t] = setManualBPM(@, bpm)]
  /\ hist' = [op |-> "setManualBPM", track |-> t, bpm |-> bpm]
  /\ UNCHANGED <<tempoVars, transportVars, metronomeVars, autoSyncEnabled>>
  /\ Idle

\* TrackComponent::bpmEditButtonClicked and the OK callback of showBPMEditor
\* with newBPM the number read from the text field
BpmEditorOk(t, newBPM) ==
  /\ isLoaded(audioTracks[t])
  /\ IF RLe(RInt(60), newBPM) /\ RLe(newBPM, RInt(200))
     THEN Install(onTrackLoaded(
            [TempoState EXCEPT !.tracks[t] = setManualBPM(@, newBPM)], newBPM))
     ELSE UNCHANGED <<audioTracks, tempoVars>>
  /\ hist' = [op |-> "bpmEditor", track |-> t, bpm |-> newBPM]
  /\ UNCHANGED <<transportVars, metronomeVars, autoSyncEnabled>>
  /\ Idle

\* ---------------------------------------------------- transport and mixing
(* clickDuration, two frames long at the model's scale.  Sample values are  *)
(* counted in units of 0.3 * metronomeVolume / ClickDuration^2, so that the *)
(* click sample times metronomeVolume is the integer generateClickSound     *)
(* gives.                                                                   *)
ClickDuration == 2 * TicksPerFrame

(* generateClickSound: silent after ClickDuration, else sine * envelope^2; *)
(* the sine is 0 at phase 0 and stands as 1 elsewhere.                     *)
generateClickSound(phase) ==
  IF phase > ClickDuration THEN 0
  ELSE (IF phase = 0 THEN 0 ELSE 1) * (ClickDuration - phase) * (ClickDuration - phase)

\* metronomePhase only matters up to ClickDuration: it is kept saturated
PhaseCap == ClickDuration + TicksPerFrame

RECURSIVE MetronomeLoop(_, _, _, _)
MetronomeLoop(M, sample, numSamples, playPosition) ==
  IF sample >= numSamples THEN M
  ELSE LET currentTime == playPosition + sample * TicksPerFrame
           beat == RLe(M.metronomeBeatInterval, RInt(currentTime - M.lastBeatTime))
           phase == IF beat THEN 0 ELSE M.metronomePhase
           clickSample == generateClickSound(phase)
       IN  MetronomeLoop(
             [M EXCEPT !.lastBeatTime = IF beat THEN currentTime ELSE @,
                       !.metronomePhase = Min(phase + TicksPerFrame, PhaseCap),
                       !.buffer = [ch \in 1..OutChannels |->
                                     [i \in 1..BlockSize |->
                                        IF i = sample + 1
                                        THEN @[ch][i] + clickSample
                                        ELSE @[ch][i]]]],
             sample + 1, numSamples, playPosition)

processMetronome(buffer, numSamples) ==
  IF ~metronomeEnabled \/ ~isPlaying
  THEN [lastBeatTime |-> lastBeatTime, metronomePhase |-> metronomePhase,
        metronomeBeatInterval |-> metronomeBeatInterval, buffer |-> buffer]
  ELSE MetronomeLoop([lastBeatTime |-> lastBeatTime,
                      metronomePhase |-> metronomePhase,
                      metronomeBeatInterval |-> BeatInterval(masterTempo),
                      buffer |-> buffer],
                     0, numSamples, currentPlayPosition)

\* the second loop of getNextAudioBlock, over the tracks in the given order
RECURSIVE RenderTracks(_, _, _, _)
RenderTracks(order, R, hasSolo, received) ==
  IF order = <<>> THEN R
  ELSE LET t == Head(order)
           tr == R.tracks[t]
           skip == ~isLoaded(tr) \/ tr.muted \/ (hasSolo /\ ~tr.solo)
           p == processBlock(tr, R.buffer, BlockSize, received[t])
       IN  RenderTracks(Tail(order),
                        IF skip THEN R
                        ELSE [tracks |-> [R.tracks EXCEPT ![t] = p.tr],
                              buffer |-> p.buffer,
                              read |-> [R.read EXCEPT ![t] = p.read]],
                        hasSolo, received)

TrackOrder == [i \in 1..NumTracks |-> i]

\* the render loop without the first loop's solo scan
MixTracksSoloUnseen(order, trks, received) ==
  RenderTracks(order, [tracks |-> trks, buffer |-> Silence, read |-> NoRead],
               FALSE, received)

MixTracks(order, trks, received) ==
  RenderTracks(order, [tracks |-> trks, buffer |-> Silence, read |-> NoRead],
               \E t \in Tracks : trks[t].solo, received)

\* the callback without the isPlaying test at its head
GetNextAudioBlockUnguarded(received) ==
  LET R == MixTracks(TrackOrder, audioTracks, received)
  IN  /\ currentPlayPosition + BlockSize * TicksPerFrame <= MaxPlayPosition
      /\ audioTracks' = R.tracks
      /\ readLog' = R.read
      /\ out' = R.buffer
      /\ currentPlayPosition' = currentPlayPosition + BlockSize * TicksPerFrame
      /\ hist' = [op |-> "callback"]
      /\ UNCHANGED <<tempoVars, isPlaying, metronomeVars, autoSyncEnabled>>

\* MainComponent::getNextAudioBlock, the audio callback
GetNextAudioBlock(received) ==
  IF ~isPlaying
  THEN /\ out' = Silence
       /\ readLog' = NoRead
       /\ hist' = [op |-> "callback"]
       /\ UNCHANGED <<audioTracks, tempoVars, transportVars, metronomeVars,
                      autoSyncEnabled>>
  ELSE LET R == MixTracks(TrackOrder, audioTracks, received)
           M == IF metronomeEnabled THEN processMetronome(R.buffer, BlockSize)
                ELSE [lastBeatTime |-> lastBeatTime,
                      metronomePhase |-> metronomePhase,
                      metronomeBeatInterval |-> metronomeBeatInterval,
                      buffer |-> R.buffer]
       IN  /\ currentPlayPosition + BlockSize * TicksPerFrame <= MaxPlayPosition
           /\ audioTracks' = R.tracks
           /\ readLog' = R.read
           /\ out' = M.buffer
           /\ lastBeatTime' = M.lastBeatTime
           /\ metronomePhase' = M.metronomePhase
           /\ metronomeBeatInterval' = M.metronomeBeatInterval
           /\ currentPlayPosition' = currentPlayPosition + BlockSize * TicksPerFrame
           /\ hist' = [op |-> "callback"]
           /\ UNCHANGED <<masterTempo, previousMasterTempo, isPlaying,
                          metronomeEnabled, autoSyncEnabled>>

\* play() that starts without the loop over the tracks
PlayWithoutPositions ==
  /\ isPlaying' = ~isPlaying
  /\ UNCHANGED audioTracks
  /\ hist' = [op |-> "play"]
  /\ Idle
  /\ UNCHANGED <<tempoVars, currentPlayPosition, metronomeVars, autoSyncEnabled>>

\* MainComponent::play
Play ==
  /\ IF ~isPlaying
     THEN /\ isPlaying' = TRUE
          /\ audioTracks' = [t \in Tracks |->
                               setPosition(audioTracks[t], currentPlayPosition)]
     ELSE /\ isPlaying' = FALSE
          /\ UNCHANGED audioTracks
  /\ hist' = [op |-> "play"]
  /\ Idle
  /\ UNCHANGED <<tempoVars, currentPlayPosition, metronomeVars, autoSyncEnabled>>

\* MainComponent::stop
Stop ==
  /\ isPlaying' = FALSE
  /\ currentPlayPosition' = 0
  /\ audioTracks' = [t \in Tracks |-> reset(audioTracks[t])]
  /\ hist' = [op |-> "stop", wasPlaying |-> isPlaying]
  /\ Idle
  /\ UNCHANGED <<tempoVars, metronomeVars, autoSyncEnabled>>

\* MainComponent::toggleMetronome
ToggleMetronome ==
  /\ metronomeEnabled' = ~metronomeEnabled
  /\ metronomePhase' = 0
  /\ lastBeatTime' = 0
  /\ hist' = NoHist
  /\ Idle
  /\ UNCHANGED <<audioTracks, tempoVars, transportVars, autoSyncEnabled>>

\* a command that changes one track only, recorded as h
TrackCommandAs(t, tr, h) ==
  /\ audioTracks' = [audioTracks EXCEPT ![t] = tr]
  /\ hist' = h
  /\ Idle
  /\ UNCHANGED <<tempoVars, transportVars, metronomeVars, autoSyncEnabled>>

TrackCommand(t, tr) == TrackCommandAs(t, tr, NoHist)

\* TrackComponent::muteButtonClicked, soloButtonClicked, loopButtonClicked
MuteButtonClicked(t) ==
  TrackCommand(t, [audioTracks[t] EXCEPT !.muted = ~@])
SoloButtonClicked(t) ==
  TrackCommand(t, [audioTracks[t] EXCEPT !.solo = ~@])
LoopButtonClicked(t) ==
  TrackCommand(t, [audioTracks[t] EXCEPT !.looping = ~@])
\* TrackComponent::volumeSliderChanged
VolumeSliderChanged(t, newVolume) ==
  TrackCommand(t, [audioTracks[t] EXCEPT !.volume = newVolume])
\* TrackComponent::onWaveformPositionChanged
WaveformPositionChanged(t, position) ==
  TrackCommand(t, setPosition(audioTracks[t], position))
\* TrackComponent::onWaveformSelectionChanged
WaveformSelectionChanged(t, startTime, endTime) ==
  TrackCommandAs(t, setLoopRegion(audioTracks[t], startTime, endTime),
                 [op |-> "setLoopRegion", track |-> t,
                  startTime |-> startTime, endTime |-> endTime,
                  snapped |-> setLoopRegion(audioTracks[t], startTime, endTime)
                                .currentPosition # audioTracks[t].currentPosition])
\* TrackComponent::clearSelectionButtonClicked
ClearSelectionButtonClicked(t) ==
  TrackCommandAs(t, clearLoopRegion(audioTracks[t]),
                 [op |-> "clearLoopRegion", track |-> t,
                  again |-> hist.op = "clearLoopRegion" /\ hist.track = t])

\* ---------------------------------------------------------------- threads
(* The same handlers a step at a time, for what the audio thread can see   *)
(* of a call of the message thread: a step ends where the code takes a     *)
(* lock (juce::ScopedLock) or moves on to the next track or stage.         *)
Release(holder, who) == IF holder = who THEN NoHolder ELSE holder

\* the slider's callback is entered: setTempo(bpm) is about to take audioLock
SetTempoCall(bpm) ==
  /\ messageThread = AtRest
  /\ messageThread' = [at |-> "setTempo:lock", bpm |-> bpm]
  /\ hist' = NoHist
  /\ UNCHANGED <<audioTracks, tempoVars, transportVars, metronomeVars,
                 autoSyncEnabled, out, readLog, audioLock, lock, audioThread>>

\* setTempo entered without its ScopedLock
SetTempoLockNotTaken ==
  /\ messageThread.at = "setTempo:lock"
  /\ messageThread' = [at |-> "setTempo:scale", bpm |-> messageThread.bpm,
                       scaleFactor |-> RDiv(messageThread.bpm, previousMasterTempo),
                       track |-> 1]
  /\ UNCHANGED <<audioTracks, tempoVars, transportVars, metronomeVars,
                 autoSyncEnabled, out, readLog, hist, audioLock, lock, audioThread>>

\* juce::ScopedLock sl(audioLock) of setTempo, and its scaleFactor
SetTempoLock ==
  /\ messageThread.at = "setTempo:lock"
  /\ audioLock = NoHolder
  /\ audioLock' = "message"
  /\ messageThread' = [at |-> "setTempo:scale", bpm |-> messageThread.bpm,
                       scaleFactor |-> RDiv(messageThread.bpm, previousMasterTempo),
                       track |-> 1]
  /\ UNCHANGED <<audioTracks, tempoVars, transportVars, metronomeVars,
                 autoSyncEnabled, out, readLog, hist, lock, audioThread>>

\* one turn of setTempo's first loop: the next track is rescaled if loaded
SetTempoScale ==
  /\ messageThread.at = "setTempo:scale"
  /\ messageThread.track <= NumTracks
  /\ LET t == messageThread.track
     IN  /\ isLoaded(audioTracks[t]) => lock[t] = NoHolder
         /\ audioTracks' =
              [audioTracks EXCEPT
                 ![t] = IF isLoaded(@)
                        THEN scaleStretchRatio(@, messageThread.scaleFactor)
                        ELSE @]
  /\ messageThread' = [messageThread EXCEPT !.track = @ + 1]
  /\ UNCHANGED <<tempoVars, transportVars, metronomeVars, autoSyncEnabled,
                 out, readLog, hist, audioLock, lock, audioThread>>

\* the rest of setTempo: the tempi, the beat interval, every track's masterBPM
SetTempoFinish ==
  /\ messageThread.at = "setTempo:scale"
  /\ messageThread.track > NumTracks
  /\ previousMasterTempo' = masterTempo
  /\ masterTempo' = messageThread.bpm
  /\ metronomeBeatInterval' = BeatInterval(messageThread.bpm)
  /\ audioTracks' = [t \in Tracks |-> setMasterBPM(audioTracks[t], messageThread.bpm)]
  /\ audioLock' = Release(audioLock, "message")
  /\ messageThread' = AtRest
  /\ UNCHANGED <<transportVars, metronomeVars, autoSyncEnabled, out, readLog,
                 hist, lock, audioThread>>

\* the file chooser's callback is entered: loadAudioFile is about to take lock
LoadCall(t, file) ==
  /\ messageThread = AtRest
  /\ messageThread' = [at |-> "load:lock", track |-> t, file |-> file]
  /\ hist' = NoHist
  /\ UNCHANGED <<audioTracks, tempoVars, transportVars, metronomeVars,
                 autoSyncEnabled, out, readLog, audioLock, lock, audioThread>>

\* juce::ScopedLock sl(lock) at the head of loadAudioFile
LoadLock ==
  /\ messageThread.at = "load:lock"
  /\ lock[messageThread.track] = NoHolder
  /\ lock' = [lock EXCEPT ![messageThread.track] = "message"]
  /\ messageThread' = [messageThread EXCEPT !.at = "load:decode"]
  /\ UNCHANGED <<audioTracks, tempoVars, transportVars, metronomeVars,
                 autoSyncEnabled, out, readLog, hist, audioLock, audioThread>>

\* createReaderFor and reader->read into audioBuffer, the position, ratio and
\* region resets; with no reader the function ends here
LoadDecode ==
  /\ messageThread.at = "load:decode"
  /\ LET t == messageThread.track
         tr == audioTracks[t]
         loaded == loadAudioFile(tr, messageThread.file)
     IN  IF messageThread.file = NoReader
         THEN /\ lock' = [lock EXCEPT ![t] = Release(@, "message")]
              /\ messageThread' = [messageThread EXCEPT !.at = "load:notify"]
              /\ UNCHANGED audioTracks
         ELSE /\ audioTracks' =
                   [audioTracks EXCEPT
                      ![t] = [loaded EXCEPT !.detectedBPM = tr.detectedBPM,
                                            !.stDirty = tr.stDirty]]
              /\ messageThread' = [messageThread EXCEPT !.at = "load:analyse"]
              /\ UNCHANGED lock
  /\ UNCHANGED <<tempoVars, transportVars, metronomeVars, autoSyncEnabled,
                 out, readLog, hist, audioLock, audioThread>>

\* the analysis with the track's lock kept for the notification that follows
LoadAnalyseKeepingLock ==
  /\ messageThread.at = "load:analyse"
  /\ LET t == messageThread.track
     IN  audioTracks' =
           [audioTracks EXCEPT
              ![t] = [@ EXCEPT
                        !.detectedBPM = EstimateBPM(messageThread.file),
                        !.stDirty = IF messageThread.file.frames > 0
                                    THEN FALSE ELSE @]]
  /\ messageThread' = [messageThread EXCEPT !.at = "load:notify"]
  /\ UNCHANGED <<tempoVars, transportVars, metronomeVars, autoSyncEnabled,
                 out, readLog, hist, audioLock, lock, audioThread>>

\* generateWaveformPeaks, the BPM detection chain and initializeSoundTouch,
\* then the end of loadAudioFile's scope
LoadAnalyse ==
  /\ messageThread.at = "load:analyse"
  /\ LET t == messageThread.track
     IN  /\ audioTracks' =
              [audioTracks EXCEPT
                 ![t] = [@ EXCEPT
                           !.detectedBPM = EstimateBPM(messageThread.file),
                           !.stDirty = IF messageThread.file.frames > 0
                                       THEN FALSE ELSE @]]
         /\ lock' = [lock EXCEPT ![t] = Release(@, "message")]
  /\ messageThread' = [messageThread EXCEPT !.at = "load:notify"]
  /\ UNCHANGED <<tempoVars, transportVars, metronomeVars, autoSyncEnabled,
                 out, readLog, hist, audioLock, audioThread>>

\* the rest of the chooser's callback: onTrackLoaded, whose
\* setInitialMasterBPM takes audioLock
LoadNotify ==
  /\ messageThread.at = "load:notify"
  /\ LET t == messageThread.track
         bpm == audioTracks[t].detectedBPM
         S == IF RLt(RInt(0), bpm) THEN onTrackLoaded(TempoState, bpm)
              ELSE TempoState
     IN  /\ S # TempoState => audioLock = NoHolder
         /\ Install(S)
         /\ hist' = [op |-> "load", track |-> t,
                     decoded |-> messageThread.file # NoReader]
  /\ messageThread' = AtRest
  /\ UNCHANGED <<transportVars, metronomeVars, autoSyncEnabled, out, readLog,
                 audioLock, lock, audioThread>>

\* the host calls getNextAudioBlock
AudioCall ==
  /\ audioThread = AtRest
  /\ audioThread' = [at |-> "lock"]
  /\ UNCHANGED <<audioTracks, tempoVars, transportVars, metronomeVars,
                 autoSyncEnabled, out, readLog, hist, budget, audioLock, lock,
                 messageThread>>

\* juce::ScopedLock sl(audioLock), the cleared buffer, the isPlaying test
\* and the solo scan
AudioLock ==
  /\ audioThread.at = "lock"
  /\ audioLock = NoHolder
  /\ IF ~isPlaying
     THEN /\ out' = Silence
          /\ readLog' = NoRead
          /\ hist' = [op |-> "callback"]
          /\ audioThread' = AtRest
          /\ UNCHANGED audioLock
     ELSE /\ currentPlayPosition + BlockSize * TicksPerFrame <= MaxPlayPosition
          /\ audioLock' = "audio"
          /\ audioThread' = [at |-> "render", track |-> 1,
                             buffer |-> Silence, read |-> NoRead,
                             hasSolo |-> \E t \in Tracks : audioTracks[t].solo]
          /\ UNCHANGED <<out, readLog, hist>>
  /\ UNCHANGED <<audioTracks, tempoVars, transportVars, metronomeVars,
                 autoSyncEnabled, budget, lock, messageThread>>

\* the track the render loop stands at is passed over
Skipped(t) ==
  \/ ~isLoaded(audioTracks[t])
  \/ audioTracks[t].muted
  \/ audioThread.hasSolo /\ ~audioTracks[t].solo

\* one turn of the render loop: processBlock takes the track's lock
AudioRender(received) ==
  /\ audioThread.at = "render"
  /\ audioThread.track <= NumTracks
  /\ LET t == audioThread.track
         R == RenderTracks(<<t>>, [tracks |-> audioTracks,
                                   buffer |-> audioThread.buffer,
                                   read |-> audioThread.read],
                           audioThread.hasSolo, [u \in Tracks |-> received])
     IN  /\ ~Skipped(t) => lock[t] = NoHolder
         /\ audioTracks' = R.tracks
         /\ audioThread' = [audioThread EXCEPT !.track = @ + 1,
                                               !.buffer = R.buffer,
                                               !.read = R.read]
  /\ UNCHANGED <<tempoVars, transportVars, metronomeVars, autoSyncEnabled,
                 out, readLog, hist, budget, audioLock, lock, messageThread>>

\* the metronome, the play position and the end of the callback's scope
AudioFinish ==
  /\ audioThread.at = "render"
  /\ audioThread.track > NumTracks
  /\ LET M == IF metronomeEnabled
              THEN processMetronome(audioThread.buffer, BlockSize)
              ELSE [lastBeatTime |-> lastBeatTime,
                    metronomePhase |-> metronomePhase,
                    metronomeBeatInterval |-> metronomeBeatInterval,
                    buffer |-> audioThread.buffer]
     IN  /\ out' = M.buffer
         /\ lastBeatTime' = M.lastBeatTime
         /\ metronomePhase' = M.metronomePhase
         /\ metronomeBeatInterval' = M.metronomeBeatInterval
  /\ readLog' = audioThread.read
  /\ currentPlayPosition' = currentPlayPosition + BlockSize * TicksPerFrame
  /\ hist' = [op |-> "callback"]
  /\ audioLock' = Release(audioLock, "audio")
  /\ audioThread' = AtRest
  /\ UNCHANGED <<audioTracks, masterTempo, previousMasterTempo, isPlaying,
                 metronomeEnabled, autoSyncEnabled, budget, lock, messageThread>>

\* play() as one step: it runs under audioLock from its first line to its last
PlayLocked ==
  /\ messageThread = AtRest
  /\ audioLock = NoHolder
  /\ Play
  /\ UNCHANGED threadVars

\* stop() as one step: it runs under audioLock from its first line to its last
StopLocked ==
  /\ messageThread = AtRest
  /\ audioLock = NoHolder
  /\ Stop
  /\ UNCHANGED threadVars

\* setLoopRegion as one step: it runs under the track's lock and takes no other
SelectionLocked(t, startTime, endTime) ==
  /\ messageThread = AtRest
  /\ lock[t] = NoHolder
  /\ WaveformSelectionChanged(t, startTime, endTime)
  /\ UNCHANGED threadVars

\* toggleMetronome: it takes no lock and runs wherever the audio thread stands
ToggleMetronomeUnlocked ==
  /\ messageThread = AtRest
  /\ metronomeEnabled' = ~metronomeEnabled
  /\ metronomePhase' = 0
  /\ lastBeatTime' = 0
  /\ hist' = NoHist
  /\ UNCHANGED <<audioTracks, tempoVars, transportVars, autoSyncEnabled, out,
                 readLog, threadVars>>

\* ---------------------------------------------------------- specifications
RatioInputs == {Rat(1, 5), Rat(4, 5), RInt(5)}
TempoInputs == {RInt(100), RInt(120), RInt(150)}
ManualInputs == {RInt(90)}

\* a command counted against the budget of the tempo specification; the
\* handler runs from its start to its end with no other thread in between
Tick == budget < MaxBudget /\ budget' = budget + 1 /\ UNCHANGED threadVars
Free == UNCHANGED budget /\ UNCHANGED threadVars

\* the tempo commands of the control thread, at most MaxBudget of them
NextTempo ==
  \/ \E t \in Tracks, file \in TempoFiles : Tick /\ LoadButtonClicked(t, file)
  \/ \E t \in Tracks, ratio \in RatioInputs : Tick /\ StretchSliderChanged(t, ratio)
  \/ \E t \in Tracks : Tick /\ SyncNewTrackToMaster(t)
  \/ \E bpm \in TempoInputs : Tick /\ TempoSliderChanged(bpm)
  \/ Tick /\ AutoSyncAllTracks
  \/ \E t \in Tracks, bpm \in ManualInputs : Tick /\ ManualBPMChanged(t, bpm)

SpecTempo == Init /\ [][NextTempo]_vars

\* The manual BPM entries: what a text field can hold, 0 for text that is no
\* number, and the values at and next to the ends of the accepted range
ManualEntries == {RInt(0), RInt(59), RInt(60), RInt(90), RInt(200), RInt(201)}
ManualFiles == {ClipA, NoReader}

NextManual ==
  \/ \E t \in Tracks, file \in ManualFiles : Tick /\ LoadButtonClicked(t, file)
  \/ \E t \in Tracks, bpm \in ManualEntries : Tick /\ SetManualBPMCall(t, bpm)
  \/ \E t \in Tracks, bpm \in ManualEntries : Tick /\ BpmEditorOk(t, bpm)

SpecManual == Init /\ [][NextManual]_vars

\* The session's auto sync: two clips of different BPM, a BPM set by hand
\* to the upper end of the range, the switch pressed at any time
SyncFiles == {ClipA, ClipB}
SyncManualInputs == {RInt(200)}

NextSync ==
  \/ \E t \in Tracks, file \in SyncFiles : Tick /\ LoadButtonClicked(t, file)
  \/ \E t \in Tracks, bpm \in SyncManualInputs : Tick /\ ManualBPMChanged(t, bpm)
  \/ Free /\ AutoSyncAllTracks

SpecSync == Init /\ [][NextSync]_vars

\* The BPM editor among loads, stretch and tempo changes: the corrected
\* track alone or beside another, its ratio and the master tempo moved before
CorrectionFiles == {ClipA}
CorrectionRatios == {Rat(4, 5)}
CorrectionTempi == {RInt(150)}
CorrectionEntries == {RInt(90), RInt(201)}

NextCorrection ==
  \/ \E t \in Tracks, file \in CorrectionFiles : Tick /\ LoadButtonClicked(t, file)
  \/ \E t \in Tracks, ratio \in CorrectionRatios :
       Tick /\ StretchSliderChanged(t, ratio)
  \/ \E bpm \in CorrectionTempi : Tick /\ TempoSliderChanged(bpm)
  \/ \E t \in Tracks, bpm \in CorrectionEntries : Tick /\ BpmEditorOk(t, bpm)

SpecCorrection == Init /\ [][NextCorrection]_vars

\* One track's playback: AudioTrack methods touch no other track, so the
\* commands go to the first track and the other slots stay empty.
PlayFiles == {ClipTiny, ClipShort}
MaxTime == 3 * TicksPerFrame
TimeInputs == (-1)..(MaxTime + 1)
PlayRatios == {Rat(4, 5), RInt(1)}
\* the selections: regions that start and end on and between frames, and one
\* each with a negative start, no length, the end before the start, the end
\* past the longest clip
RegionInputs ==
  {r \in {0, 1, TicksPerFrame}
          \X {TicksPerFrame, TicksPerFrame + 1, 2 * TicksPerFrame, MaxTime} :
     r[1] < r[2]}
    \cup {<<-1, 1>>, <<1, 1>>, <<TicksPerFrame, 1>>, <<0, MaxTime + 1>>}
\* receiveSamples is only called for a loaded track in stretched mode
Received == {r \in [Tracks -> 0..BlockSize] :
               \A t \in Tracks :
                 (~isLoaded(audioTracks[t]) \/ IsDirect(audioTracks[t])) => r[t] = 0}

NextLoop ==
  \/ \E file \in PlayFiles : Free /\ LoadButtonClicked(1, file)
  \/ \E position \in TimeInputs : Free /\ WaveformPositionChanged(1, position)
  \/ \E region \in RegionInputs :
       Free /\ WaveformSelectionChanged(1, region[1], region[2])
  \/ Free /\ ClearSelectionButtonClicked(1)
  \/ Free /\ LoopButtonClicked(1)
  \/ \E ratio \in PlayRatios : Free /\ StretchSliderChanged(1, ratio)
  \/ Free /\ Play
  \/ Free /\ Stop
  \/ \E received \in Received : Free /\ GetNextAudioBlock(received)

SpecLoop == Init /\ [][NextLoop]_vars

\* One track's controls and its reloads: the clip is replaced while the
\* track has a position, a ratio, a loop region and its controls set.
ReloadFiles == {ClipA, ClipB}
ReloadRegions == {<<1, TicksPerFrame + 1>>}
ReloadPositions == {TicksPerFrame}
VolumeInputs == {1, 2}

NextReload ==
  \/ \E file \in ReloadFiles : Free /\ LoadButtonClicked(1, file)
  \/ \E position \in ReloadPositions : Free /\ WaveformPositionChanged(1, position)
  \/ \E region \in ReloadRegions :
       Free /\ WaveformSelectionChanged(1, region[1], region[2])
  \/ \E ratio \in PlayRatios : Free /\ StretchSliderChanged(1, ratio)
  \/ Free /\ MuteButtonClicked(1)
  \/ Free /\ SoloButtonClicked(1)
  \/ Free /\ LoopButtonClicked(1)
  \/ \E v \in VolumeInputs : Free /\ VolumeSliderChanged(1, v)

SpecReload == Init /\ [][NextReload]_vars

\* The estimator's inputs: a clip the onset stage decides, one only the
\* autocorrelation can decide, and one too short for both.
EstimateFiles == {ClipA, ClipLag, ClipShort}

NextEstimate ==
  \E t \in Tracks, file \in EstimateFiles : Tick /\ LoadButtonClicked(t, file)

SpecEstimate == Init /\ [][NextEstimate]_vars

\* The playback mode: one clip without loop region, ratios at and next to
\* the threshold of the mode test, positions inside a frame, looping on and
\* off.
ModeFiles == {ClipShort}
ModeRatios == {Rat(49, 50), Rat(99, 100), RInt(1), Rat(51, 50)}
ModePositions == {1, TicksPerFrame}

NextMode ==
  \/ \E file \in ModeFiles : Free /\ LoadButtonClicked(1, file)
  \/ \E ratio \in ModeRatios : Free /\ StretchSliderChanged(1, ratio)
  \/ \E position \in ModePositions : Free /\ WaveformPositionChanged(1, position)
  \/ Free /\ LoopButtonClicked(1)
  \/ Free /\ Play
  \/ \E received \in Received : Free /\ GetNextAudioBlock(received)

SpecMode == Init /\ [][NextMode]_vars

\* The mixer's track selection: all tracks with the mute and solo controls
\* and the transport.
MixFiles == {ClipShort}

NextMix ==
  \/ \E t \in Tracks, file \in MixFiles : Free /\ LoadButtonClicked(t, file)
  \/ \E t \in Tracks : Free /\ MuteButtonClicked(t)
  \/ \E t \in Tracks : Free /\ SoloButtonClicked(t)
  \/ Free /\ Play
  \/ Free /\ Stop
  \/ \E received \in Received : Free /\ GetNextAudioBlock(received)

SpecMix == Init /\ [][NextMix]_vars

\* The mixed signal: clips of distinct level and width, the volume control
\* and the metronome.
LevelFiles == {ClipShort, ClipB}

NextLevel ==
  \/ \E t \in Tracks, file \in LevelFiles : Free /\ LoadButtonClicked(t, file)
  \/ \E t \in Tracks, v \in VolumeInputs : Free /\ VolumeSliderChanged(t, v)
  \/ Free /\ Play
  \/ Free /\ ToggleMetronome
  \/ \E received \in Received : Free /\ GetNextAudioBlock(received)

SpecLevel == Init /\ [][NextLevel]_vars

\* The metronome over the transport: play, pause, stop, the metronome
\* switch and tempo changes, with no track loaded.
MetronomeTempi == {RInt(60), RInt(120)}

NextMetronome ==
  \/ Free /\ Play
  \/ Free /\ Stop
  \/ Free /\ ToggleMetronome
  \/ \E bpm \in MetronomeTempi : Free /\ TempoSliderChanged(bpm)
  \/ \E received \in Received : Free /\ GetNextAudioBlock(received)

SpecMetronome == Init /\ [][NextMetronome]_vars

\* The two threads a step at a time: the message thread loads and changes
\* the tempo, the audio thread runs its callback.
ThreadFiles == {ClipA}
ThreadTempi == {RInt(150)}
ThreadRegions == {<<0, TicksPerFrame>>}
StepBudget == budget < MaxBudget - 1 /\ budget' = budget + 1
ReceivedAt(t) ==
  IF isLoaded(audioTracks[t]) /\ ~IsDirect(audioTracks[t])
  THEN 0..BlockSize ELSE {0}

NextThreads ==
  \/ \E t \in Tracks, file \in ThreadFiles : StepBudget /\ LoadCall(t, file)
  \/ UNCHANGED budget /\ LoadLock
  \/ UNCHANGED budget /\ LoadDecode
  \/ UNCHANGED budget /\ LoadAnalyse
  \/ UNCHANGED budget /\ LoadNotify
  \/ \E bpm \in ThreadTempi : StepBudget /\ SetTempoCall(bpm)
  \/ UNCHANGED budget /\ SetTempoLock
  \/ UNCHANGED budget /\ SetTempoScale
  \/ UNCHANGED budget /\ SetTempoFinish
  \/ UNCHANGED budget /\ PlayLocked
  \/ StepBudget /\ StopLocked
  \/ \E t \in Tracks, region \in ThreadRegions :
       StepBudget /\ SelectionLocked(t, region[1], region[2])
  \/ StepBudget /\ ToggleMetronomeUnlocked
  \/ AudioCall
  \/ AudioLock
  \/ \E t \in Tracks : \E received \in ReceivedAt(t) :
       audioThread.at = "render" /\ audioThread.track = t /\ AudioRender(received)
  \/ AudioFinish

SpecThreads == Init /\ [][NextThreads]_vars

\* ------------------------------------------------------------------ claims
Loaded == {t \in Tracks : isLoaded(audioTracks[t])}
InsideRatioRange(r) == RLt(MinRatio, r) /\ RLt(r, MaxRatio)
Near(x, y) == RLe(RAbs(RSub(x, y)), RatioEpsilon)

\* C1: every track's stretchRatio is in [0.25, 4.0] in every reachable state
RatioInRange ==
  \A t \in Tracks : /\ RLe(MinRatio, audioTracks[t].stretchRatio)
                    /\ RLe(audioTracks[t].stretchRatio, MaxRatio)

\* a setTempo whose scaled ratio left the range and was clamped
RatioClamped ==
  /\ hist.op = "setTempo"
  /\ \E t \in Loaded :
       /\ RLt(MaxRatio, RMul(hist.ratio[t], RDiv(hist.bpm, hist.previous)))
       /\ audioTracks[t].stretchRatio = MaxRatio

\* C2: setTempo(X) directly followed by setTempo(M), M the master tempo before
\* the first call, restores every loaded track's stretchRatio when nothing
\* was clamped
RoundTripRestores ==
  [][(/\ hist.op = "setTempo"
      /\ hist'.op = "setTempo"
      /\ hist'.bpm = hist.master)
     => \A t \in Loaded :
          (/\ InsideRatioRange(audioTracks[t].stretchRatio)
           /\ InsideRatioRange(audioTracks'[t].stretchRatio))
          => Near(audioTracks'[t].stretchRatio, hist.ratio[t])]_vars

\* C3: setTempo(newBpm) at master tempo M takes every loaded track's ratio r
\* to clamp(r * newBpm / M, 0.25, 4.0)
SetTempoScalesByMaster ==
  [][hist'.op = "setTempo"
     => \A t \in Loaded :
          Near(audioTracks'[t].stretchRatio,
               jlimit(MinRatio, MaxRatio,
                      RMul(audioTracks[t].stretchRatio,
                           RDiv(hist'.bpm, masterTempo))))]_vars

\* C4 as stated: with a loop region set, every source frame read by the
\* callback has its index in [start * sampleRate, end * sampleRate)
ReadInsideRegionExact ==
  \A t \in Tracks :
    audioTracks[t].hasCustomLoopRegion =>
      \A i \in readLog[t] :
        /\ audioTracks[t].loopStartTime <= i * TicksPerFrame
        /\ i * TicksPerFrame < audioTracks[t].loopEndTime

\* C4 amended: with a loop region set, every source frame read by the
\* callback has its index in [floor(start * sampleRate), floor(end * sampleRate))
ReadInsideRegionFrames ==
  \A t \in Tracks :
    audioTracks[t].hasCustomLoopRegion =>
      \A i \in readLog[t] :
        /\ audioTracks[t].loopStartTime \div TicksPerFrame <= i
        /\ i < audioTracks[t].loopEndTime \div TicksPerFrame

\* a callback read up to the last frame of a region that starts inside a frame
ReadRegionToItsEnd ==
  \E t \in Tracks :
    /\ audioTracks[t].hasCustomLoopRegion
    /\ audioTracks[t].loopStartTime % TicksPerFrame # 0
    /\ (audioTracks[t].loopEndTime \div TicksPerFrame) - 1 \in readLog[t]
    /\ audioTracks[t].loopStartTime \div TicksPerFrame \in readLog[t]

\* C5: a loaded track's position is in [0, duration], and inside the loop
\* region when one is set
PositionInBounds ==
  \A t \in Tracks :
    isLoaded(audioTracks[t]) =>
      /\ 0 <= audioTracks[t].currentPosition
      /\ audioTracks[t].currentPosition <= getDurationInSeconds(audioTracks[t])
      /\ audioTracks[t].hasCustomLoopRegion =>
           /\ audioTracks[t].loopStartTime <= audioTracks[t].currentPosition
           /\ audioTracks[t].currentPosition <= audioTracks[t].loopEndTime

\* C6: a callback while not playing leaves the output silent and moves no
\* track position and not the play position
SilentWhenStopped ==
  [][(~isPlaying /\ hist'.op = "callback")
     => /\ out' = Silence
        /\ \A t \in Tracks :
             audioTracks'[t].currentPosition = audioTracks[t].currentPosition
        /\ currentPlayPosition' = currentPlayPosition]_vars

\* a callback ran while the transport was paused in mid-play
CallbackWhilePaused ==
  /\ hist.op = "callback"
  /\ ~isPlaying
  /\ currentPlayPosition > 0
  /\ \E t \in Loaded : audioTracks[t].currentPosition > 0

\* C7: with exactly one loaded track soloed, a callback renders no other
\* loaded track: it reads nothing of it, leaves it as it was, and the output
\* is what the soloed track gives alone
SoloTracks == {t \in Loaded : audioTracks[t].solo}
SoloSilencesOthers ==
  [][(isPlaying /\ hist'.op = "callback" /\ Cardinality(SoloTracks) = 1)
     => LET s == CHOOSE t \in SoloTracks : TRUE
        IN  /\ \A u \in Loaded \ {s} :
                 /\ audioTracks'[u] = audioTracks[u]
                 /\ readLog'[u] = {}
            /\ ~metronomeEnabled
               => \E r \in 0..BlockSize :
                    out' = processBlock(audioTracks[s], Silence, BlockSize, r).buffer]_vars

\* a callback rendered the one soloed track next to a loaded, unmuted one
SoloRendered ==
  /\ hist.op = "callback"
  /\ isPlaying
  /\ Cardinality(SoloTracks) = 1
  /\ \E u \in Loaded \ SoloTracks : ~audioTracks[u].muted
  /\ \E t \in SoloTracks : readLog[t] # {}
  /\ out # Silence

\* C8: the two loaded, unmuted, non-solo tracks of a playing session, both in
\* direct mode
TwoDirectTracks ==
  /\ isPlaying
  /\ Cardinality(Loaded) = 2
  /\ \A t \in Loaded : /\ ~audioTracks[t].muted
                       /\ ~audioTracks[t].solo
                       /\ IsDirect(audioTracks[t])
Level(t) == audioTracks[t].audioBuffer.amp * audioTracks[t].volume
SharedChannels ==
  {ch \in 1..OutChannels : \A t \in Loaded : ch <= audioTracks[t].audioBuffer.chans}
ReverseOrder == [i \in 1..NumTracks |-> NumTracks + 1 - i]
NoneReceived == [t \in Tracks |-> 0]

\* C8 as stated: every output sample of the callback is v1 * vol1 + v2 * vol2
\* on every channel both tracks have
MixIsSumOfLevels ==
  [][(TwoDirectTracks /\ hist'.op = "callback")
     => LET a == CHOOSE t \in Loaded : TRUE
            b == CHOOSE t \in Loaded : t # a
        IN  \A ch \in SharedChannels : \A i \in 1..BlockSize :
              out'[ch][i] = Level(a) + Level(b)]_vars

\* C8 amended: with the metronome off, output sample i is the sum of
\* v * vol over those of the two tracks that read at least i frames in this
\* callback (a track reads fewer than a block when the block reaches the end
\* of its region), whatever the order the tracks are rendered in
MixIsSumOfFramesRead ==
  [][(TwoDirectTracks /\ hist'.op = "callback" /\ ~metronomeEnabled)
     => LET a == CHOOSE t \in Loaded : TRUE
            b == CHOOSE t \in Loaded : t # a
            Part(t, i) == IF i <= Cardinality(readLog'[t]) THEN Level(t) ELSE 0
        IN  /\ \A ch \in SharedChannels : \A i \in 1..BlockSize :
                 out'[ch][i] = Part(a, i) + Part(b, i)
            /\ out' = MixTracks(ReverseOrder, audioTracks, NoneReceived).buffer]_vars

\* a callback mixed a full block of two tracks of different level
TwoLevelsMixed ==
  /\ hist.op = "callback"
  /\ TwoDirectTracks
  /\ ~metronomeEnabled
  /\ \A t \in Loaded : Cardinality(readLog[t]) = BlockSize
  /\ \E t, u \in Loaded : Level(t) # Level(u)
  /\ \E t, u \in Loaded : t # u /\ out[1][BlockSize] = Level(t) + Level(u)

\* C9: a load that leaves its track the only loaded one makes the track's
\* detected BPM the master tempo, its stretchRatio 1.0, and every track's
\* masterBPM the new master tempo
FirstTrackAdopted ==
  [][(/\ hist'.op = "load"
      /\ hist'.decoded
      /\ Loaded \subseteq {hist'.track}
      /\ isLoaded(audioTracks'[hist'.track])
      /\ InBPMRange(audioTracks'[hist'.track].detectedBPM))
     => /\ masterTempo' = audioTracks'[hist'.track].detectedBPM
        /\ audioTracks'[hist'.track].stretchRatio = RInt(1)
        /\ \A u \in Tracks : audioTracks'[u].masterBPM = masterTempo']_vars

\* the first track was loaded after the master tempo had been moved, and
\* its BPM replaced it
FirstTrackLoaded ==
  /\ hist.op = "load"
  /\ Loaded = {hist.track}
  /\ masterTempo = audioTracks[hist.track].detectedBPM
  /\ masterTempo # previousMasterTempo
  /\ previousMasterTempo # RInt(120)

\* C10: a load into one track while another track is loaded changes neither
\* masterTempo nor previousMasterTempo nor any other track's stretchRatio
LoadKeepsMaster ==
  [][(/\ hist'.op = "load"
      /\ hist'.decoded
      /\ Loaded \ {hist'.track} # {})
     => /\ masterTempo' = masterTempo
        /\ previousMasterTempo' = previousMasterTempo
        /\ \A u \in Tracks \ {hist'.track} :
             audioTracks'[u].stretchRatio = audioTracks[u].stretchRatio]_vars

\* C11: some loaded tracks have been rescaled by the setTempo call in
\* progress and others have not yet
HalfRescaled ==
  /\ messageThread.at = "setTempo:scale"
  /\ \E t, u \in Loaded : t < messageThread.track /\ messageThread.track <= u

\* C11: the audio thread never stands inside its render loop while a setTempo
\* call has rescaled some of the loaded tracks and not the others
SetTempoAtomic == audioThread.at = "render" => ~HalfRescaled

\* a callback arrived while setTempo had rescaled the first loaded track only,
\* during playback, and waits for audioLock
CallbackWaitsForSetTempo ==
  /\ HalfRescaled
  /\ isPlaying
  /\ audioThread.at = "lock"
  /\ audioLock = "message"
  /\ \E t \in Loaded : audioTracks[t].stretchRatio # RInt(1)

\* C12: the audio thread never stands at a track's processBlock while the
\* message thread holds that track's lock for the decoding or the analysis
\* of a load
RenderNeverWaitsForLoad ==
  ~(/\ audioThread.at = "render"
    /\ audioThread.track <= NumTracks
    /\ messageThread.at \in {"load:decode", "load:analyse"}
    /\ messageThread.track = audioThread.track
    /\ ~Skipped(messageThread.track)
    /\ lock[messageThread.track] = "message")

\* C13: a load whose decode fails leaves the track's buffer, position,
\* stretchRatio, detectedBPM and loop region and the session's masterTempo and
\* previousMasterTempo as they were
FailedLoadIsNoOp ==
  [][(hist'.op = "load" /\ ~hist'.decoded)
     => LET a == audioTracks[hist'.track]
            b == audioTracks'[hist'.track]
        IN  /\ b.audioBuffer = a.audioBuffer
            /\ b.currentPosition = a.currentPosition
            /\ b.stretchRatio = a.stretchRatio
            /\ b.detectedBPM = a.detectedBPM
            /\ b.hasCustomLoopRegion = a.hasCustomLoopRegion
            /\ b.loopStartTime = a.loopStartTime
            /\ b.loopEndTime = a.loopEndTime
            /\ masterTempo' = masterTempo
            /\ previousMasterTempo' = previousMasterTempo]_vars

\* C14: setLoopRegion(start, end) with 0 <= start < end <= duration sets the
\* region to (start, end), snaps a position outside it to start and keeps a
\* position inside it; any other call leaves the track as it was
SetLoopRegionValidated ==
  [][hist'.op = "setLoopRegion"
     => LET a == audioTracks[hist'.track]
            b == audioTracks'[hist'.track]
            startTime == hist'.startTime
            endTime == hist'.endTime
        IN  IF 0 <= startTime /\ startTime < endTime
               /\ endTime <= a.audioBuffer.frames * TicksPerFrame
            THEN /\ b.hasCustomLoopRegion
                 /\ b.loopStartTime = startTime
                 /\ b.loopEndTime = endTime
                 /\ b.currentPosition =
                      IF a.currentPosition < startTime \/ endTime < a.currentPosition
                      THEN startTime ELSE a.currentPosition
            ELSE b = a]_vars

\* a region was accepted and the position, outside it, was snapped to its start
PositionSnappedToStart ==
  /\ hist.op = "setLoopRegion"
  /\ audioTracks[hist.track].hasCustomLoopRegion
  /\ audioTracks[hist.track].loopStartTime = hist.startTime
  /\ hist.snapped
  /\ audioTracks[hist.track].currentPosition = hist.startTime

\* C15: a clearLoopRegion that follows a clearLoopRegion of the same track
\* changes nothing
ClearTwiceAsOnce ==
  [][(hist'.op = "clearLoopRegion" /\ hist'.again) => audioTracks' = audioTracks]_vars

\* the region of a loaded track was cleared twice in a row, the position
\* inside the clip
ClearedTwice ==
  /\ hist.op = "clearLoopRegion"
  /\ hist.again
  /\ isLoaded(audioTracks[hist.track])
  /\ audioTracks[hist.track].currentPosition > 0

\* C20 as stated: play() toggles isPlaying; when it starts, every track's
\* position becomes the play position; when it pauses, no track position and
\* not the play position changes
PlayPushesPosition ==
  [][hist'.op = "play"
     => /\ isPlaying' = ~isPlaying
        /\ currentPlayPosition' = currentPlayPosition
        /\ IF ~isPlaying
           THEN \A t \in Tracks :
                  audioTracks'[t].currentPosition = currentPlayPosition
           ELSE \A t \in Tracks :
                  audioTracks'[t].currentPosition = audioTracks[t].currentPosition]_vars

\* the range setPosition keeps a track's position in
PositionFloor(tr) ==
  IF tr.hasCustomLoopRegion /\ tr.loopStartTime < tr.loopEndTime
  THEN tr.loopStartTime ELSE 0
PositionCeiling(tr) ==
  IF tr.hasCustomLoopRegion /\ tr.loopStartTime < tr.loopEndTime
  THEN tr.loopEndTime ELSE tr.audioBuffer.frames * TicksPerFrame

\* C20 amended: when play() starts, every track's position becomes the play
\* position limited to the track's loop region, or to [0, duration] without one
PlayPushesLimitedPosition ==
  [][hist'.op = "play"
     => /\ isPlaying' = ~isPlaying
        /\ currentPlayPosition' = currentPlayPosition
        /\ IF ~isPlaying
           THEN \A t \in Tracks :
                  LET lo == PositionFloor(audioTracks[t])
                      hi == PositionCeiling(audioTracks[t])
                  IN  audioTracks'[t].currentPosition =
                        IF currentPlayPosition < lo THEN lo
                        ELSE IF hi < currentPlayPosition THEN hi
                        ELSE currentPlayPosition
           ELSE \A t \in Tracks :
                  audioTracks'[t].currentPosition = audioTracks[t].currentPosition]_vars

\* play() resumed with the play position beyond the end of a loaded track
ResumedPastTheEnd ==
  /\ hist.op = "play"
  /\ isPlaying
  /\ \E t \in Loaded :
       /\ getDurationInSeconds(audioTracks[t]) < currentPlayPosition
       /\ audioTracks[t].currentPosition = getDurationInSeconds(audioTracks[t])

\* C16: a manual BPM outside [60, 200], given to setManualBPM or entered in
\* the BPM editor, leaves the track's detectedBPM as it was; one inside the
\* range becomes the track's detectedBPM
ManualBPMRangeChecked ==
  [][hist'.op \in {"setManualBPM", "bpmEditor"}
     => audioTracks'[hist'.track].detectedBPM =
          IF RLe(RInt(60), hist'.bpm) /\ RLe(hist'.bpm, RInt(200))
          THEN hist'.bpm
          ELSE audioTracks[hist'.track].detectedBPM]_vars

\* setManualBPM was called with 201 on a loaded track whose BPM had been set
\* to 200 by hand, and the 200 is still there
ManualBPMRejected ==
  /\ hist.op = "setManualBPM"
  /\ hist.bpm = RInt(201)
  /\ isLoaded(audioTracks[hist.track])
  /\ audioTracks[hist.track].detectedBPM = RInt(200)

\* C17: masterTempo is above 0 in every state, and the metronome's beat
\* interval is finite and above 0
MasterTempoPositive ==
  /\ RLt(RInt(0), masterTempo)
  /\ metronomeBeatInterval[2] > 0
  /\ RLt(RInt(0), metronomeBeatInterval)

\* auto sync has moved the master tempo to an average no track and no slider
\* position has
MasterTempoAveraged ==
  /\ hist.op = "autoSync"
  /\ autoSyncEnabled
  /\ Cardinality(Loaded) = NumTracks
  /\ masterTempo # previousMasterTempo
  /\ \A t \in Tracks : audioTracks[t].detectedBPM # masterTempo

\* the loaded tracks whose detectedBPM lies strictly between 60 and 200
Qualifying ==
  {t \in Loaded : /\ RLt(RInt(60), audioTracks[t].detectedBPM)
                  /\ RLt(audioTracks[t].detectedBPM, RInt(200))}

RECURSIVE DetectedSum(_)
DetectedSum(ts) ==
  IF ts = {} THEN RInt(0)
  ELSE LET t == CHOOSE x \in ts : TRUE
       IN  RAdd(audioTracks[t].detectedBPM, DetectedSum(ts \ {t}))

QualifyingAverage == RDiv(DetectedSum(Qualifying), RInt(Cardinality(Qualifying)))

\* C19 as stated: every autoSyncTracks invocation with a qualifying track
\* leaves masterTempo at the average of the qualifying BPMs; one without
\* changes no track and no tempo
AutoSyncAlwaysAverages ==
  [][hist'.op = "autoSync"
     => IF Qualifying # {}
        THEN masterTempo' = QualifyingAverage
        ELSE UNCHANGED <<audioTracks, tempoVars>>]_vars

\* C19 amended: an invocation flips autoSyncEnabled; one that switches it on
\* with a qualifying track leaves masterTempo at the average of the
\* qualifying BPMs; every other one changes no track and no tempo
AutoSyncAveragesWhenSwitchedOn ==
  [][hist'.op = "autoSync"
     => /\ autoSyncEnabled' = ~autoSyncEnabled
        /\ IF ~autoSyncEnabled /\ Qualifying # {}
           THEN masterTempo' = QualifyingAverage
           ELSE UNCHANGED <<audioTracks, tempoVars>>]_vars

\* auto sync was switched on with one track at 200 BPM, left out, and one
\* inside the range, whose BPM became the master tempo
AutoSyncLeftOutTheEnd ==
  /\ hist.op = "autoSync"
  /\ autoSyncEnabled
  /\ \E t, u \in Loaded :
       /\ audioTracks[t].detectedBPM = RInt(200)
       /\ u \in Qualifying
       /\ masterTempo = audioTracks[u].detectedBPM
       /\ masterTempo # previousMasterTempo

\* C18: a track's detectedBPM is 0 or lies in [60, 200]; a load that decodes
\* leaves it in [60, 200]; no other step moves it away from 0, and no step
\* moves it back to 0
DetectedBPMZeroOrInRange ==
  [][\A t \in Tracks :
       LET a == audioTracks[t].detectedBPM
           b == audioTracks'[t].detectedBPM
           inRange == RLe(RInt(60), b) /\ RLe(b, RInt(200))
           decodedLoad == hist'.op = "load" /\ hist'.track = t /\ hist'.decoded
       IN  /\ b = RInt(0) \/ inRange
           /\ decodedLoad => inRange
           /\ (~decodedLoad /\ a = RInt(0)) => b = RInt(0)
           /\ a # RInt(0) => b # RInt(0)]_vars

\* a load failed on a track never loaded, its detectedBPM still 0, while the
\* other track carries a BPM corrected by hand
FailedLoadLeftZero ==
  /\ hist.op = "load"
  /\ ~hist.decoded
  /\ audioTracks[hist.track].detectedBPM = RInt(0)
  /\ \E u \in Loaded : audioTracks[u].detectedBPM \in ManualInputs

\* C21: stop() leaves isPlaying false, the play position at 0 and every
\* track at the start of its loop region, or at 0 without one; ratios, loop
\* regions, controls, clips and the tempi are as before
StopResetsTransport ==
  [][hist'.op = "stop"
     => /\ ~isPlaying'
        /\ currentPlayPosition' = 0
        /\ masterTempo' = masterTempo
        /\ previousMasterTempo' = previousMasterTempo
        /\ \A t \in Tracks :
             LET a == audioTracks[t]
                 b == audioTracks'[t]
             IN  /\ b.currentPosition =
                      IF a.hasCustomLoopRegion THEN a.loopStartTime ELSE 0
                 /\ [b EXCEPT !.currentPosition = 0, !.stDirty = FALSE]
                      = [a EXCEPT !.currentPosition = 0, !.stDirty = FALSE]]_vars

\* stop() ended a playback and left a track at the start of a loop region
\* that does not start at 0
StoppedAtRegionStart ==
  /\ hist.op = "stop"
  /\ hist.wasPlaying
  /\ \E t \in Loaded :
       /\ audioTracks[t].hasCustomLoopRegion
       /\ audioTracks[t].loopStartTime > 0
       /\ audioTracks[t].currentPosition = audioTracks[t].loopStartTime

\* C22: a load that decodes leaves the track at position 0, with
\* stretchRatio 1, without loop region and with the estimator's BPM for the
\* file; muted, solo, looping and volume are as before
LoadResetsDerivedState ==
  [][(hist'.op = "load" /\ hist'.decoded)
     => LET a == audioTracks[hist'.track]
            b == audioTracks'[hist'.track]
        IN  /\ b.currentPosition = 0
            /\ b.stretchRatio = RInt(1)
            /\ ~b.hasCustomLoopRegion
            /\ b.loopStartTime = 0 /\ b.loopEndTime = 0
            /\ b.detectedBPM = EstimateBPM(b.audioBuffer)
            /\ b.muted = a.muted /\ b.solo = a.solo
            /\ b.looping = a.looping /\ b.volume = a.volume]_vars

\* the first track, its controls all moved, was loaded again: the master
\* tempo its first clip had set is now the previous one
ReloadedWithControlsSet ==
  /\ hist.op = "load"
  /\ hist.decoded
  /\ Loaded = {hist.track}
  /\ previousMasterTempo \in {EstimateBPM(f) : f \in ReloadFiles}
  /\ previousMasterTempo # masterTempo
  /\ LET b == audioTracks[hist.track]
     IN  b.muted /\ b.solo /\ ~b.looping /\ b.volume = 2

\* C23: a callback of a playing session in which no loaded track has solo
\* set renders every loaded, unmuted track, whatever the solo flags of the
\* tracks without audio
SoloOfEmptyTrackIgnored ==
  [][(isPlaying /\ hist'.op = "callback" /\ SoloTracks = {})
     => \A t \in Loaded : ~audioTracks[t].muted => readLog'[t] # {}]_vars

\* C24: the load of a clip that is long enough and has fewer than 4 onsets
\* leaves the track with the BPM of the autocorrelation stage when that
\* stage finds a lag
EstimatorFallsThrough ==
  [][(hist'.op = "load" /\ hist'.decoded)
     => LET f == audioTracks'[hist'.track].audioBuffer
        IN  (/\ f.frames >= FramesPerSec
             /\ f.onsets < 4
             /\ f.lag # 0)
            => audioTracks'[hist'.track].detectedBPM = OctaveCorrect(Rat(60000, f.lag))]_vars

\* C25 as stated: a callback of a playing session leaves every loaded,
\* unmuted, looping track whose region has a positive length at a position
\* inside [regionStart, regionEnd)
LoopingKeepsPositionInAnyRegion ==
  [][(isPlaying /\ hist'.op = "callback" /\ SoloTracks = {})
     => \A t \in Loaded :
          (audioTracks[t].looping /\ ~audioTracks[t].muted /\ ~audioTracks[t].solo)
          => LET a == audioTracks[t]
                 b == audioTracks'[t]
                 lo == IF a.hasCustomLoopRegion THEN a.loopStartTime ELSE 0
                 hi == IF a.hasCustomLoopRegion THEN a.loopEndTime
                       ELSE a.audioBuffer.frames * TicksPerFrame
             IN  lo < hi => (lo <= b.currentPosition /\ b.currentPosition < hi)]_vars

\* C25 amended: a callback of a playing session reads frames of every
\* loaded, unmuted, looping track whose region holds a whole frame and leaves
\* its position inside [regionStart, regionEnd), the region being the loop
\* region or the whole clip; in stretched mode SoundTouch is left cleared
\* exactly when the position was wrapped to the region's start at the end of
\* the call
LoopingKeepsPositionInRegion ==
  [][(isPlaying /\ hist'.op = "callback" /\ SoloTracks = {})
     => \A t \in Loaded :
          (audioTracks[t].looping /\ ~audioTracks[t].muted /\ ~audioTracks[t].solo)
          => LET a == audioTracks[t]
                 b == audioTracks'[t]
                 lo == IF a.hasCustomLoopRegion THEN a.loopStartTime ELSE 0
                 hi == IF a.hasCustomLoopRegion THEN a.loopEndTime
                       ELSE a.audioBuffer.frames * TicksPerFrame
             IN  (lo \div TicksPerFrame) < (hi \div TicksPerFrame)
                 => /\ readLog'[t] # {}
                    /\ lo <= b.currentPosition
                    /\ b.currentPosition < hi
                    /\ ~IsDirect(a) => (b.stDirty <=> b.currentPosition # lo)]_vars

\* a stretched callback read a looping track to the end of a loop region
\* that starts inside the clip, and left it at the region's start with
\* SoundTouch cleared
StretchedWrapCleared ==
  /\ hist.op = "callback"
  /\ isPlaying
  /\ \E t \in Loaded :
       /\ audioTracks[t].looping
       /\ ~IsDirect(audioTracks[t])
       /\ audioTracks[t].hasCustomLoopRegion
       /\ audioTracks[t].loopStartTime > 0
       /\ (audioTracks[t].loopEndTime \div TicksPerFrame) - 1 \in readLog[t]
       /\ audioTracks[t].currentPosition = audioTracks[t].loopStartTime
       /\ ~audioTracks[t].stDirty

\* C26: a callback renders a track without loop region in direct mode
\* exactly when |stretchRatio - 1| < 0.02; it reads min(BlockSize, frames
\* left) frames in direct mode and min(2 * BlockSize, frames left) in
\* stretched mode, from the frame the position stands in, and moves the
\* position on by the frames read, whatever SoundTouch returned; with
\* looping the position is taken back into the clip before and after
RenderAdvancesByFramesRead ==
  [][(isPlaying /\ hist'.op = "callback" /\ SoloTracks = {})
     => \A t \in Loaded :
          (~audioTracks[t].muted /\ ~audioTracks[t].solo
           /\ ~audioTracks[t].hasCustomLoopRegion)
          => LET a == audioTracks[t]
                 b == audioTracks'[t]
                 frames == a.audioBuffer.frames
                 direct == RLt(RAbs(RSub(a.stretchRatio, RInt(1))), Rat(2, 100))
                 index0 == a.currentPosition \div TicksPerFrame
                 wrapIn == a.looping /\ index0 >= frames
                 index == IF wrapIn THEN index0 % frames ELSE index0
                 entry == IF wrapIn THEN index * TicksPerFrame ELSE a.currentPosition
                 wanted == IF direct THEN BlockSize ELSE 2 * BlockSize
                 consumed == IF wanted < frames - index THEN wanted ELSE frames - index
                 advanced == entry + consumed * TicksPerFrame
             IN  IF ~a.looping /\ index0 >= frames
                 THEN readLog'[t] = {} /\ b = a
                 ELSE /\ readLog'[t] = index .. (index + consumed - 1)
                      /\ b.currentPosition =
                           IF a.looping /\ advanced >= frames * TicksPerFrame
                           THEN 0 ELSE advanced]_vars

\* a track at ratio 0.98, not looping, was rendered in stretched mode from a
\* position inside a frame: more than BlockSize frames were read, SoundTouch
\* returned nothing, and the position moved on by the frames read
StretchedAtThreshold ==
  /\ hist.op = "callback"
  /\ isPlaying
  /\ out = Silence
  /\ \E t \in Loaded :
       /\ audioTracks[t].stretchRatio = Rat(49, 50)
       /\ ~audioTracks[t].looping
       /\ Cardinality(readLog[t]) > BlockSize
       /\ audioTracks[t].currentPosition % TicksPerFrame # 0
       /\ audioTracks[t].currentPosition
            = 1 + Cardinality(readLog[t]) * TicksPerFrame

\* C27: at the end of every callback of a playing session with the metronome
\* on, the last beat trigger lies at or before the last frame's transport
\* time and less than one beat interval before it, so that the next trigger
\* comes no later than one interval and one frame after the last
BeatWithinInterval ==
  [][(isPlaying /\ metronomeEnabled /\ hist'.op = "callback")
     => LET lastFrameTime == currentPlayPosition' - TicksPerFrame
        IN  /\ lastBeatTime' <= lastFrameTime
            /\ RLt(RInt(lastFrameTime - lastBeatTime'), BeatInterval(masterTempo))]_vars

\* the message thread stands at a lock the audio thread holds
MessageWaits ==
  \/ messageThread.at = "setTempo:lock" /\ audioLock = "audio"
  \/ messageThread.at = "load:notify" /\ audioLock = "audio"
  \/ messageThread.at = "load:lock" /\ lock[messageThread.track] = "audio"

\* the audio thread stands at a lock the message thread holds
AudioWaits ==
  \/ audioThread.at = "lock" /\ audioLock = "message"
  \/ /\ audioThread.at = "render"
     /\ audioThread.track <= NumTracks
     /\ ~Skipped(audioThread.track)
     /\ lock[audioThread.track] = "message"

\* C28: the message thread holds a track's lock only where it asks for no
\* other lock, a thread that holds a track's lock and can be made to wait
\* holds audioLock too, and the two threads never wait for each other
LockOrderKept ==
  /\ \A t \in Tracks :
       lock[t] = "message" => messageThread.at \in {"load:decode", "load:analyse"}
  /\ \A t \in Tracks : lock[t] = "audio" => audioLock = "audio"
  /\ ~(MessageWaits /\ AudioWaits)

\* the audio thread, holding audioLock, waits for the lock of a track that
\* the message thread is loading
CallbackWaitsForTrackLock ==
  /\ audioLock = "audio"
  /\ AudioWaits
  /\ messageThread.at = "load:analyse"
  /\ ~MessageWaits

\* C29: the metronome's enabled flag, click phase and lastBeatTime are written
\* by the message thread only while no callback is in progress, that is never
\* while the audio thread holds audioLock
MetronomeWrittenUnderLock ==
  [][(audioLock = "audio" /\ audioThread' = audioThread)
       => /\ metronomeEnabled' = metronomeEnabled
          /\ metronomePhase' = metronomePhase
          /\ lastBeatTime' = lastBeatTime]_vars

\* C30: a BPM between 60 and 200 entered for a track with audio becomes the
\* track's detectedBPM; if that track is the only one with audio, masterTempo
\* becomes the entered BPM, previousMasterTempo the masterTempo before and
\* the track's ratio 1; if two or more tracks have audio, nothing but the
\* track's detectedBPM changes
CorrectionRerunsTrackLoaded ==
  [][(/\ hist'.op = "bpmEditor"
      /\ RLe(MinBPM, hist'.bpm)
      /\ RLe(hist'.bpm, MaxBPM))
       => LET t == hist'.track
              bpm == hist'.bpm
          IN  /\ audioTracks'[t].detectedBPM = bpm
              /\ Cardinality(Loaded) = 1
                   => /\ masterTempo' = bpm
                      /\ previousMasterTempo' = masterTempo
                      /\ audioTracks'[t].stretchRatio = RInt(1)
              /\ Cardinality(Loaded) >= 2
                   => /\ masterTempo' = masterTempo
                      /\ previousMasterTempo' = previousMasterTempo
                      /\ audioTracks' =
                           [audioTracks EXCEPT ![t].detectedBPM = bpm]]_vars

\* the only track with audio, stretched and under a master tempo moved by
\* hand, has just been corrected: the master tempo is the entered BPM, the
\* one before it is kept and the ratio is back at 1
SingleTrackCorrected ==
  /\ hist.op = "bpmEditor"
  /\ Cardinality(Loaded) = 1
  /\ masterTempo = hist.bpm
  /\ previousMasterTempo = RInt(150)
  /\ audioTracks[hist.track].detectedBPM = hist.bpm
  /\ audioTracks[hist.track].stretchRatio = RInt(1)

====
